---- MODULE Spec2Model ----
(***************************************************************************)
(* ALU Telemetry: the ghost store and comparison engine                    *)
(* (src/ghost_manager.py) and the snapshot assembler with its threads      *)
(* (src/data_extractor.py, src/main.py, src/gui.py).                       *)
(*                                                                         *)
(* Python values are written as follows.                                   *)
(*   None           the empty set {}                                       *)
(*   an int/float   the singleton {x} where a field is optional            *)
(*   a list         a sequence                                             *)
(*   a dict         a function whose domain is the set of its keys         *)
(***************************************************************************)
EXTENDS Integers, Sequences, FiniteSets, TLC

\* ------------------------------------------------------------------ bounds
\* Longest frame list handed to save_race_data.
MaxFrames == 3
\* Largest race-timer value of a generated frame.
MaxTimer == 2
\* Number of save_race_data calls followed per behaviour.
MaxSaves == 2

\* ------------------------------------------------------- optional values
None == {}

Some(x) == {x}

Val(o) == CHOOSE x \in o : TRUE

\* dict.get(key): the value, or None when the key is absent.
Get(d, k) == IF k \in DOMAIN d THEN d[k] ELSE None

\* dict.get(key, default)
GetOr(d, k, default) == IF k \in DOMAIN d THEN d[k] ELSE default

\* d[k] = v on a dict: the key is added when absent.
SetKey(d, k, v) == [x \in (DOMAIN d) \cup {k} |-> IF x = k THEN v ELSE d[x]]

\* int(n / d) for d > 0: Python's int() truncates toward zero.
Trunc(n, d) == IF n >= 0 THEN n \div d ELSE -((-n) \div d)

\* sorted(seq, key=...) is stable: position k holds the element with k-1
\* elements before it in (key, index) order.  keys is the sequence of keys.
StableOrder(keys) ==
  [k \in 1..Len(keys) |->
     CHOOSE i \in 1..Len(keys) :
       Cardinality({j \in 1..Len(keys) :
                      keys[j] < keys[i] \/ (keys[j] = keys[i] /\ j < i)}) = k - 1]

RECURSIVE Concat(_)
Concat(ss) == IF ss = <<>> THEN <<>> ELSE Head(ss) \o Concat(Tail(ss))

\* --------------------------------------------------------- ghost documents
EMPTY_GHOST == [splits |-> <<>>, best_splits |-> <<>>, race_data |-> <<>>]

RequiredKeys == {"splits", "best_splits", "race_data"}

\* ---------------------------------------------------- best-splits logic
\* sorted(splits, key=lambda s: s.get("race_completion", 0.0))
sorted_splits(splits) ==
  LET keys == [i \in 1..Len(splits) |-> GetOr(splits[i], "race_completion", 0)]
      ord  == StableOrder(keys)
  IN  [k \in 1..Len(splits) |-> splits[ord[k]]]

\* The (start_pct, end_pct, name) triples of the regions.
boundaries(splits) ==
  LET ss == sorted_splits(splits)
      n  == Len(ss)
      endOf(i) == GetOr(ss[i], "race_completion", 0)
  IN  IF n = 0
      THEN << [start_pct |-> 0, end_pct |-> 100, name |-> "Full Run"] >>
      ELSE [i \in 1..n |->
              [start_pct |-> IF i = 1 THEN 0 ELSE endOf(i - 1),
               end_pct   |-> endOf(i),
               name      |-> GetOr(ss[i], "name", "")]]
           \o << [start_pct |-> endOf(n), end_pct |-> 100, name |-> "Finish"] >>

\* One slim entry of a frame that has a timer.
slim_entry(f, timer_offset) ==
  [timer_value         |-> Some(Val(Get(f, "timer_value")) + timer_offset),
   race_completion_pct |-> Get(f, "race_completion_pct")]

RECURSIVE _slim(_, _)
_slim(frames, timer_offset) ==
  IF frames = <<>> THEN <<>>
  ELSE LET f == Head(frames)
       IN  (IF Get(f, "timer_value") # None
            THEN << slim_entry(f, timer_offset) >>
            ELSE <<>>)
           \o _slim(Tail(frames), timer_offset)

HasPct(f) == Get(f, "race_completion_pct") # None

Pct(f) == Val(Get(f, "race_completion_pct"))

HasTimer(f) == Get(f, "timer_value") # None

Timer(f) == Val(Get(f, "timer_value"))

_frames_in_region(frames, start_pct, end_pct) ==
  SelectSeq(frames,
            LAMBDA f : HasPct(f) /\ start_pct <= Pct(f) /\ Pct(f) <= end_pct)

_split_timer(frames, at_pct) ==
  LET before == SelectSeq(frames,
                  LAMBDA f : HasPct(f) /\ Pct(f) <= at_pct /\ HasTimer(f))
      after  == SelectSeq(frames,
                  LAMBDA f : HasPct(f) /\ Pct(f) >= at_pct /\ HasTimer(f))
  IN  IF before = <<>> /\ after = <<>> THEN None
      ELSE IF before = <<>> THEN Some(Timer(after[1]))
      ELSE IF after = <<>> THEN Some(Timer(before[Len(before)]))
      ELSE LET f0 == before[Len(before)]
               f1 == after[1]
               p0 == Pct(f0)
               p1 == Pct(f1)
           IN  IF p0 = p1 THEN Some(Timer(f0))
               ELSE Some(Trunc(Timer(f0) * (p1 - p0)
                                 + (at_pct - p0) * (Timer(f1) - Timer(f0)),
                               p1 - p0))

\* "x or 0" on an optional int.
OrZero(o) == IF o = None THEN 0 ELSE Val(o)

\* The new run wins the region: no previous best, or new_time <= old_time.
new_run_wins(new_time, old_time) ==
  old_time = None \/ Val(new_time) <= Val(old_time)

\* The entries one region contributes to assembled_best.
region_choice(old_best, new_frames, b) ==
  LET new_region == _frames_in_region(new_frames, b.start_pct, b.end_pct)
      old_region == _frames_in_region(old_best, b.start_pct, b.end_pct)
      new_time   == _split_timer(new_region, b.end_pct)
      old_time   == _split_timer(old_region, b.end_pct)
  IN  IF new_time = None THEN _slim(old_region, 0)
      ELSE IF new_run_wins(new_time, old_time)
      THEN _slim(new_region, -OrZero(_split_timer(new_region, b.start_pct)))
      ELSE _slim(old_region, 0)

_compute_best_splits(old_best, new_frames, splits) ==
  LET bs == boundaries(splits)
  IN  Concat([i \in 1..Len(bs) |-> region_choice(old_best, new_frames, bs[i])])

\* ------------------------------------------------------------ JSON text
\* json.dump writes a tree of tagged values; json.load reads it back.  A file
\* whose text is no JSON at all is Garbage.
JNull == [t |-> "null"]

JNum(n) == [t |-> "num", v |-> n]

JStr(s) == [t |-> "str", v |-> s]

JArr(s) == [t |-> "arr", v |-> s]

JObj(f) == [t |-> "obj", v |-> f]

Garbage == [t |-> "garbage"]

NoFile == [t |-> "absent"]

\* An optional number: None is written null.
dump_opt(o) == IF o = None THEN JNull ELSE JNum(Val(o))

\* A frame or a best_splits entry: a dict of optional numbers.
dump_row(d) == JObj([k \in DOMAIN d |-> dump_opt(d[k])])

dump_rows(rows) == JArr([i \in 1..Len(rows) |-> dump_row(rows[i])])

dump_split(sp) ==
  JObj([k \in DOMAIN sp |-> IF k = "name" THEN JStr(sp[k]) ELSE JNum(sp[k])])

dump_splits(splits) == JArr([i \in 1..Len(splits) |-> dump_split(splits[i])])

\* json.dump(ghost, fh, indent=2)
json_dump(ghost) ==
  JObj([k \in DOMAIN ghost |->
          IF k = "splits" THEN dump_splits(ghost[k]) ELSE dump_rows(ghost[k])])

load_opt(j) == IF j.t = "null" THEN None ELSE Some(j.v)

load_row(j) == [k \in DOMAIN j.v |-> load_opt(j.v[k])]

load_rows(j) == [i \in 1..Len(j.v) |-> load_row(j.v[i])]

load_split(j) == [k \in DOMAIN j.v |-> j.v[k].v]

load_splits(j) == [i \in 1..Len(j.v) |-> load_split(j.v[i])]

\* json.load(fh) of a parseable text
json_load(text) ==
  [k \in DOMAIN text.v |->
     IF k = "splits" THEN load_splits(text.v[k]) ELSE load_rows(text.v[k])]

\* os.path.isfile(filepath)
isfile(file) == file # NoFile

\* json.load raises JSONDecodeError on a text that is no JSON.
parses(file) == file.t = "obj"

\* ------------------------------------------------------- GhostManager
\* A validation that forgets one key: it accepts a document without splits.
missing_required_key_but_splits(data) ==
  \E k \in {"best_splits", "race_data"} : k \notin DOMAIN data

\* for required_key in ("splits", "best_splits", "race_data"):
\*     if required_key not in data: raise ValueError
missing_required_key(data) == \E k \in RequiredKeys : k \notin DOMAIN data

\* load_ghost(filepath): the exception it raises ("" when it returns) and the
\* dict it returns.  json.JSONDecodeError is a ValueError.
load_ghost(file) ==
  IF ~isfile(file) THEN [raised |-> "FileNotFoundError", data |-> None]
  ELSE IF ~parses(file) THEN [raised |-> "ValueError", data |-> None]
  ELSE LET data == json_load(file)
       IN  IF missing_required_key(data)
           THEN [raised |-> "ValueError", data |-> None]
           ELSE [raised |-> "", data |-> Some(data)]

\* A variant that starts every ghost without splits.
create_ghost_without_splits(splits_config) == EMPTY_GHOST

\* create_ghost: ghost["splits"] = splits_config if splits_config else []
create_ghost(splits_config) ==
  [EMPTY_GHOST EXCEPT !.splits =
     IF splits_config = None \/ Val(splits_config) = <<>>
     THEN <<>> ELSE Val(splits_config)]

\* save_race_data, "Load or initialise": the ghost the update starts from.
load_or_initialise(file) ==
  IF isfile(file)
  THEN (IF parses(file) THEN json_load(file) ELSE EMPTY_GHOST)
  ELSE EMPTY_GHOST

\* save_race_data: the ghost written to disk and made active.
save_race_data(file, race_frames) ==
  LET ghost    == load_or_initialise(file)
      splits   == GetOr(ghost, "splits", <<>>)
      old_best == GetOr(ghost, "best_splits", <<>>)
      g1       == SetKey(ghost, "race_data", race_frames)
  IN  SetKey(g1, "best_splits",
             _compute_best_splits(old_best, race_frames, splits))

\* get_splits()
get_splits(ag) == IF ag = None THEN <<>> ELSE GetOr(Val(ag), "splits", <<>>)

\* float(x), and the quotient a float expression evaluates to: num / den.
Float(x) == [num |-> x, den |-> 1]

\* A variant that leaves the entries in file order.
sort_by_pct_unsorted(valid) == valid

\* valid.sort(key=lambda e: e["race_completion_pct"])
sort_by_pct(valid) ==
  LET ord == StableOrder([i \in 1..Len(valid) |-> Pct(valid[i])])
  IN  [k \in 1..Len(valid) |-> valid[ord[k]]]

\* A bracket search with strict comparisons: p0 < current_race_pct < p1.
bracket_search_strict(valid, pct) ==
  LET hits == {i \in 1..(Len(valid) - 1) :
                 Pct(valid[i]) < pct /\ pct < Pct(valid[i + 1])}
  IN  IF hits = {} THEN None
      ELSE LET i  == CHOOSE h \in hits : \A g \in hits : h <= g
               p0 == Pct(valid[i])
               p1 == Pct(valid[i + 1])
           IN  Some([num |-> Timer(valid[i]) * (p1 - p0)
                               + (pct - p0)
                                 * (Timer(valid[i + 1]) - Timer(valid[i])),
                     den |-> p1 - p0])

\* The bracket search of interpolate_ghost_timer and its fall-through.
bracket_search(valid, pct) ==
  LET hits == {i \in 1..(Len(valid) - 1) :
                 Pct(valid[i]) <= pct /\ pct <= Pct(valid[i + 1])}
  IN  IF hits = {} THEN None
      ELSE LET i  == CHOOSE h \in hits : \A g \in hits : h <= g
               p0 == Pct(valid[i])
               p1 == Pct(valid[i + 1])
           IN  IF p0 = p1 THEN Some(Float(Timer(valid[i])))
               ELSE Some([num |-> Timer(valid[i]) * (p1 - p0)
                                    + (pct - p0)
                                      * (Timer(valid[i + 1]) - Timer(valid[i])),
                          den |-> p1 - p0])

\* interpolate_ghost_timer(current_race_pct) on the active ghost ag.
interpolate_ghost_timer(ag, current_race_pct) ==
  IF ag = None THEN None
  ELSE LET best == GetOr(Val(ag), "best_splits", <<>>)
       IN  IF best = <<>> THEN None
           ELSE LET unsorted == SelectSeq(best,
                                  LAMBDA e : HasTimer(e) /\ HasPct(e))
                IN  IF unsorted = <<>> THEN None
                    ELSE LET valid == sort_by_pct(unsorted)
                             n     == Len(valid)
                         IN  IF current_race_pct <= Pct(valid[1])
                             THEN Some(Float(Timer(valid[1])))
                             ELSE IF current_race_pct >= Pct(valid[n])
                             THEN Some(Float(Timer(valid[n])))
                             ELSE bracket_search(valid, current_race_pct)

\* ------------------------------------------------------------- inputs
\* Ghost files the manager is pointed at.
MainPath == "ghosts/a.json"

\* A ghost file that also reaches the directory from outside the program.
ImportPath == "ghosts/b.json"

Paths == {MainPath, ImportPath}

\* A snapshot as save_race_data sees it: the two always-read fields and one
\* full-tier field (the frame's other keys are carried the same way).
Frame(tv, rp) ==
  [timer_value |-> tv, race_completion_pct |-> rp,
   gear |-> IF tv = None THEN None ELSE Some(1)]

\* The snapshot get_snapshot returns while no base pointer is captured.
NullFrame == Frame(None, None)

F(t, p) == Frame(Some(t), Some(p))

\* Progress values of generated frames: start, the split at 50 %, finish.
ProgressGrid == {0, 50, 100}

GridFrames == {F(t, p) : t \in 0..MaxTimer, p \in ProgressGrid}

\* The timer never runs backwards during a race, and the generated runs do
\* not drive backwards either.
RaceLike(r) ==
  \A i \in 1..Len(r) : \A j \in (i + 1)..Len(r) :
    (HasTimer(r[i]) /\ HasPct(r[i]) /\ HasTimer(r[j]) /\ HasPct(r[j]))
      => (Timer(r[i]) <= Timer(r[j]) /\ Pct(r[i]) <= Pct(r[j]))

GridRuns ==
  {r \in UNION {[1..n -> GridFrames] : n \in 0..MaxFrames} : RaceLike(r)}

\* Snapshots with a field missing: no base pointer, a failed timer read, a
\* failed progress read.
DefectFrames == {NullFrame, Frame(None, Some(50)), Frame(Some(1), None)}

\* A snapshot with a missing field before or after a frame of the grid.
DefectRuns ==
  UNION {{<< d >> \o r, r \o << d >>} :
           d \in DefectFrames, r \in {g \in GridRuns : Len(g) <= 1}}

\* Runs sampled inside both regions and never on the split: frames at 0, 25,
\* 75 and 100 %.
QuarterRuns ==
  {<< F(0, 0), F(a, 25), F(b, 75), F(c, 100) >> :
     a \in 0..MaxTimer, b \in 0..MaxTimer, c \in 0..MaxTimer} \cap
  {r \in [1..4 -> {F(t, p) : t \in 0..MaxTimer, p \in {0, 25, 75, 100}}] :
     RaceLike(r)}

\* The runs of the specification's split scenario (section 8): 1000 + 1200
\* stored, then 900 + 1300 driven.
ScenarioOldRun == << F(0, 0), F(1000, 50), F(2200, 100) >>

ScenarioNewRun == << F(0, 0), F(900, 50), F(2200, 100) >>

\* A run that beats the stored one of the scenario in both regions: 900 over
\* 0..50 %, 1100 over 50..100 %.
ScenarioFastRun == << F(0, 0), F(900, 50), F(2000, 100) >>

Runs ==
  GridRuns \cup DefectRuns \cup QuarterRuns
    \cup {ScenarioOldRun, ScenarioNewRun, ScenarioFastRun}

Split(name, pct) == [name |-> name, race_completion |-> pct]

ScenarioSplits == << Split("Split 1", 50) >>

\* splits_config arguments of create_ghost: none given, an empty list, one
\* split, and two splits entered out of order.
SplitConfigs ==
  {None, Some(<<>>), Some(ScenarioSplits),
   Some(<< Split("Late", 75), Split("Early", 25) >>)}

\* ---------------------------------------------------------------- state
VARIABLES
  files,          \* the ghost files on disk: path -> text, or NoFile
  active_ghost,   \* GhostManager._active_ghost: None or Some(dict)
  active_path,    \* GhostManager._active_path: None or Some(path)
  last,           \* the last call: its name, arguments, result
  nsaves          \* save_race_data calls so far

gvars == << files, active_ghost, active_path, last, nsaves >>

VARIABLES
  proc,                \* the game process: "absent" or "running"
  gen,                 \* how many game processes have been started
  timer_hooked,        \* the AOB_RACE_TIMER site is patched with a jump
  cp_hooked,           \* the AOB_CHECKPOINT site is patched with a jump
  race_slot_val,       \* content of the timer trampoline's pointer slot
  cp_slot_val,         \* content of the checkpoint trampoline's pointer slot
  game_tick,           \* physics ticks of the current race
  game_memory,         \* the hooked site and its trampoline in the game
  _pm,                 \* DataExtractor._pm: None or Some(process generation)
  _p_race_data_slot,   \* DataExtractor._p_race_data_slot: None or Some(generation)
  _p_checkpoint_slot,  \* DataExtractor._p_checkpoint_slot: None or Some(generation)
  _race_data_ptr,      \* DataExtractor._race_data_ptr
  _last_timer_value,   \* DataExtractor._last_timer_value
  _lock,               \* DataExtractor._lock: None or Some(holding thread)
  pc,                  \* where each thread stands
  loc,                 \* the locals of each thread's extractor call
  race_frames,         \* race_loop's race_frames
  _latest_snapshot,    \* TelemetryGUI._latest_snapshot
  _race_active,        \* TelemetryGUI._race_active
  last_ghost_path      \* config.get("last_ghost_path"): None or Some(path)

xvars ==
  << proc, gen, timer_hooked, cp_hooked, race_slot_val, cp_slot_val, game_tick,
     game_memory, _pm, _p_race_data_slot, _p_checkpoint_slot, _race_data_ptr,
     _last_timer_value, _lock, pc, loc, race_frames, _latest_snapshot,
     _race_active, last_ghost_path >>

vars == << gvars, xvars >>

Threads == {"Main", "RaceLoop", "Poll"}

\* The protection of a page of game code, and the one the injection relaxes
\* it to.
PAGE_EXECUTE_READ == "PAGE_EXECUTE_READ"

PAGE_EXECUTE_READWRITE == "PAGE_EXECUTE_READWRITE"

\* The game's memory before any injection: the site holds its original
\* instruction, nothing is allocated for a trampoline.
UntouchedMemory ==
  [site_protect |-> PAGE_EXECUTE_READ,
   site_jump    |-> None,
   allocation   |-> None,
   tramp_store  |-> None,
   slot_value   |-> 0,
   stray_store  |-> FALSE,
   crashed      |-> FALSE]

\* The locals of a thread that is in no extractor call.
NoLocals ==
  [base |-> 0, timer_value |-> None, tick |-> FALSE, last_before |-> -1,
   invoked |-> {}, failed |-> {}, read_bases |-> {}, snapshot |-> None]

\* DataExtractor.__init__, TelemetryGUI.__init__, and main() before its
\* first statement; the game is not running.
ExtractorInit ==
  /\ proc = "absent"
  /\ gen = 0
  /\ timer_hooked = FALSE
  /\ cp_hooked = FALSE
  /\ race_slot_val = 0
  /\ cp_slot_val = 0
  /\ game_tick = 0
  /\ game_memory = UntouchedMemory
  /\ _pm = None
  /\ _p_race_data_slot = None
  /\ _p_checkpoint_slot = None
  /\ _race_data_ptr = 0
  /\ _last_timer_value = -1
  /\ _lock = None
  /\ pc = [t \in Threads |-> IF t = "Main" THEN "attach" ELSE "not_started"]
  /\ loc = [t \in Threads |-> NoLocals]
  /\ race_frames = <<>>
  /\ _latest_snapshot = None
  /\ _race_active = FALSE

\* GhostManager.__init__, no ghost file on disk.
ManagerInit ==
  /\ files = [p \in Paths |-> NoFile]
  /\ active_ghost = None
  /\ active_path = None
  /\ last = [op |-> "none"]
  /\ nsaves = 0

GhostInit == ManagerInit /\ ExtractorInit /\ last_ghost_path = None

\* create_ghost(filepath, splits_config)
CreateGhost(p, cfg) ==
  LET ghost == create_ghost(cfg)
  IN  /\ files' = [files EXCEPT ![p] = json_dump(ghost)]
      /\ active_ghost' = Some(ghost)
      /\ active_path' = Some(p)
      /\ last' = [op |-> "create_ghost", path |-> p, splits_config |-> cfg,
                  ret |-> ghost]
      /\ UNCHANGED nsaves
      /\ UNCHANGED xvars

\* save_race_data(filepath, race_frames)
SaveRaceData(p, frames) ==
  /\ nsaves < MaxSaves
  /\ LET old   == load_or_initialise(files[p])
         ghost == save_race_data(files[p], frames)
     IN  /\ files' = [files EXCEPT ![p] = json_dump(ghost)]
         /\ active_ghost' = Some(ghost)
         /\ active_path' = Some(p)
         /\ last' = [op |-> "save_race_data", path |-> p,
                     race_frames |-> frames,
                     splits |-> GetOr(old, "splits", <<>>),
                     old_best |-> GetOr(old, "best_splits", <<>>),
                     old_race_data |-> GetOr(old, "race_data", <<>>)]
  /\ nsaves' = nsaves + 1
  /\ UNCHANGED xvars

\* The ghost store driven by create_ghost and save_race_data alone, on one
\* ghost file.
BestNext ==
  \/ \E cfg \in SplitConfigs : CreateGhost(MainPath, cfg)
  \/ \E r \in Runs : SaveRaceData(MainPath, r)

BestSpec == GhostInit /\ [][BestNext]_vars

\* A best_splits entry.
Entry(t, p) == [timer_value |-> Some(t), race_completion_pct |-> Some(p)]

\* ------------------------------------------------ the manager's whole API
\* Runs a session hands to save_race_data: one with a snapshot taken while
\* no pointer was captured, one with a sample on the 50 % split.
SessionRuns ==
  { << F(0, 0), NullFrame, F(2, 100) >>,
    << F(0, 0), F(1, 50), F(3, 100) >> }

\* Documents some other program left behind, every section empty: one with
\* all the required keys, one for each key left out, and one without any.
KeyDocs ==
  {[k \in K |-> <<>>] :
     K \in {RequiredKeys, {}} \cup {RequiredKeys \ {k} : k \in RequiredKeys}}

\* A ghost of another origin: best_splits out of progress order, two entries
\* on the same progress, and an entry without timer.
ForeignGhost ==
  [splits      |-> <<>>,
   best_splits |-> << Entry(7, 100), Entry(3, 50), Entry(4, 50),
                      [timer_value |-> None, race_completion_pct |-> Some(25)],
                      Entry(1, 0) >>,
   race_data   |-> << F(0, 0) >>]

\* A ghost whose best_splits entries all lack a field.
HollowGhost ==
  [splits      |-> <<>>,
   best_splits |-> << [timer_value |-> None, race_completion_pct |-> Some(50)] >>,
   race_data   |-> <<>>]

\* What the file system can hold without the manager's doing.
ExternalFiles ==
  {NoFile, Garbage}
    \cup {json_dump(d) : d \in KeyDocs \cup {ForeignGhost, HollowGhost}}

\* Progress values the GUI asks the ghost timer for.
QueryPcts == {-10, 0, 50, 60, 100, 110}

\* Sessions that end in a save while the whole API is in use.
MaxSessions == 1

\* Split lists the split dialog hands to set_splits.
DialogSplits == {<<>>, ScenarioSplits}

\* The user, or another program, replaces or deletes a ghost file.
ExternalWrite(p, content) ==
  /\ files[p] # content
  /\ files' = [files EXCEPT ![p] = content]
  /\ last' = [op |-> "external", path |-> p]
  /\ UNCHANGED << active_ghost, active_path, nsaves >>
  /\ UNCHANGED xvars

\* load_ghost(filepath)
\* A load_ghost that takes the path as active before it validates the file.
LoadGhost_path_first(p) ==
  LET r == load_ghost(files[p])
  IN  /\ active_ghost' = IF r.raised = "" THEN r.data ELSE active_ghost
      /\ active_path' = Some(p)
      /\ last' = [op |-> "load_ghost", path |-> p, file |-> files[p],
                  raised |-> r.raised, ret |-> r.data]
      /\ UNCHANGED << files, nsaves >>
      /\ UNCHANGED xvars

LoadGhost(p) ==
  LET r == load_ghost(files[p])
  IN  /\ active_ghost' = IF r.raised = "" THEN r.data ELSE active_ghost
      /\ active_path' = IF r.raised = "" THEN Some(p) ELSE active_path
      /\ last' = [op |-> "load_ghost", path |-> p, file |-> files[p],
                  raised |-> r.raised, ret |-> r.data]
      /\ UNCHANGED << files, nsaves >>
      /\ UNCHANGED xvars

\* set_splits(splits)
SetSplits(splits) ==
  /\ IF active_ghost = None \/ active_path = None
     THEN UNCHANGED << files, active_ghost >>
     ELSE LET ghost == SetKey(Val(active_ghost), "splits", splits)
          IN  /\ active_ghost' = Some(ghost)
              /\ files' = [files EXCEPT ![Val(active_path)] = json_dump(ghost)]
  /\ last' = [op |-> "set_splits", splits |-> splits]
  /\ UNCHANGED << active_path, nsaves >>
  /\ UNCHANGED xvars

\* interpolate_ghost_timer(current_race_pct)
Interpolate(pct) ==
  /\ last' = [op |-> "interpolate_ghost_timer", current_race_pct |-> pct,
              ret |-> interpolate_ghost_timer(active_ghost, pct)]
  /\ UNCHANGED << files, active_ghost, active_path, nsaves >>
  /\ UNCHANGED xvars

\* Every public method of GhostManager, on ghost files that other programs
\* may write as well.
GhostNext ==
  \/ \E cfg \in SplitConfigs : CreateGhost(MainPath, cfg)
  \/ \E p \in Paths, r \in SessionRuns :
       nsaves < MaxSessions /\ SaveRaceData(p, r)
  \/ \E p \in Paths : LoadGhost(p)
  \/ \E sp \in DialogSplits : SetSplits(sp)
  \/ \E pct \in QueryPcts : Interpolate(pct)
  \/ \E c \in ExternalFiles : ExternalWrite(ImportPath, c)

GhostSpec == GhostInit /\ [][GhostNext]_vars

\* ------------------------------------------------------ DataExtractor
\* Bounds of the extractor's world.
MaxGameTicks == 2

MaxProcs == 1

MaxRaceFrames == 1

OFFSET_RACE_TIMER == 160

OFFSET_RACE_PROGRESS == 472

OFFSET_RPM == 440

OFFSET_GEAR == 160

\* Addresses in the game process: the race-data object the timer hook
\* captures, the checkpoint struct, and an address nothing is mapped at.
RaceDataAddr == 4096

CheckpointAddr == 8192

WildAddr == 12288

\* The engine speed the game shows, and the progress gained per tick.
RpmValue == 7000

ProgressPerTick == 50

Goto(t, label) == pc' = [pc EXCEPT ![t] = label]

\* The pymem handle belongs to the game process that is running now.
handle_ok == _pm # None /\ proc = "running" /\ Val(_pm) = gen

\* pm.read_int / read_bytes / read_longlong at an address of the game:
\* Some(value), or None where pymem raises.
read_memory(addr) ==
  IF ~handle_ok THEN None
  ELSE IF addr = RaceDataAddr + OFFSET_RACE_TIMER THEN Some(game_tick)
  ELSE IF addr = RaceDataAddr + OFFSET_RACE_PROGRESS
       THEN Some(ProgressPerTick * game_tick)
  ELSE IF addr = RaceDataAddr + OFFSET_RPM THEN Some(RpmValue)
  ELSE IF addr = CheckpointAddr THEN Some(game_tick)
  ELSE None

\* A slot read that trusts the handle: no test of _pm, no except clause.
read_slot_unguarded(slot, content) == IF slot = None THEN {0} ELSE {content}

\* What a read of a pointer slot can return: 0 without slot or handle, 0 when
\* pymem raises, the slot's content, and for a slot address left over from an
\* earlier process whatever that address holds now.
read_slot(slot, content) ==
  IF slot = None \/ _pm = None THEN {0}
  ELSE IF ~handle_ok THEN {0}
  ELSE IF Val(slot) = gen THEN {content}
  ELSE {0, WildAddr}

_read_race_data_ptr == read_slot(_p_race_data_slot, race_slot_val)

_read_checkpoint_ptr == read_slot(_p_checkpoint_slot, cp_slot_val)

_read_timer(base) == read_memory(base + OFFSET_RACE_TIMER)

_read_race_progress(base) == read_memory(base + OFFSET_RACE_PROGRESS)

_read_rpm(base) == read_memory(base + OFFSET_RPM)

_read_gear(base) == read_memory(base + OFFSET_GEAR)

_read_checkpoint(cp_base) == IF cp_base = 0 THEN None ELSE read_memory(cp_base)

\* The keys get_snapshot fills only on a physics tick, in the order of their
\* assignments.
FullTierFields ==
  << "velocity", "car_angle", "car_position", "camera_angle",
     "camera_position", "checkpoint", "nitro_bar_pct", "nitro_state",
     "drift_state", "360_state", "gear", "engine_rpm", "acceleration" >>

FullTierKeys == {FullTierFields[i] : i \in 1..Len(FullTierFields)}

SnapshotKeys == {"timer_value", "race_completion_pct"} \cup FullTierKeys

\* The reader behind each full-tier key; all but three are placeholders that
\* return None.
read_field(key, base, cp_base) ==
  IF key = "checkpoint" THEN _read_checkpoint(cp_base)
  ELSE IF key = "gear" THEN _read_gear(base)
  ELSE IF key = "engine_rpm" THEN _read_rpm(base)
  ELSE None

\* The full-tier keys whose reader reads the game's memory.
RemoteFields == {"checkpoint", "gear", "engine_rpm"}

\* A reader whose failure is not caught: the first failing read ends the
\* call, and no field of the snapshot is delivered.
read_field_uncaught(key, base, cp_base, failing) ==
  IF failing # {} THEN None ELSE read_field(key, base, cp_base)

\* The reader behind a key when the remote reads of the keys in failing
\* raise: the except clause of the reader turns the exception into None.
read_field_or_none(key, base, cp_base, failing) ==
  IF key \in failing THEN None ELSE read_field(key, base, cp_base)

\* A tick detector that compares and does not remember the timer.
_has_physics_update_forgetful(current_timer, last_timer_value) ==
  IF current_timer = None
  THEN [changed |-> FALSE, last_timer_value |-> last_timer_value]
  ELSE [changed |-> Val(current_timer) # last_timer_value,
        last_timer_value |-> last_timer_value]

\* A tick detector that takes an unreadable timer for a change.
_has_physics_update_on_none(current_timer, last_timer_value) ==
  IF current_timer = None
  THEN [changed |-> TRUE, last_timer_value |-> last_timer_value]
  ELSE [changed |-> Val(current_timer) # last_timer_value,
        last_timer_value |-> Val(current_timer)]

\* _has_physics_update(current_timer): its result and the _last_timer_value
\* it leaves.
_has_physics_update(current_timer, last_timer_value) ==
  IF current_timer = None
  THEN [changed |-> FALSE, last_timer_value |-> last_timer_value]
  ELSE [changed |-> Val(current_timer) # last_timer_value,
        last_timer_value |-> Val(current_timer)]

\* detect_race_end: race_ended = False, the placeholder condition.
race_ended == FALSE

\* is_attached()
is_attached == handle_ok

\* ---- the game
ProcessStart ==
  /\ proc = "absent"
  /\ gen < MaxProcs
  /\ proc' = "running"
  /\ gen' = gen + 1
  /\ timer_hooked' = FALSE
  /\ cp_hooked' = FALSE
  /\ race_slot_val' = 0
  /\ cp_slot_val' = 0
  /\ game_tick' = 0
  /\ UNCHANGED << _pm, _p_race_data_slot, _p_checkpoint_slot, _race_data_ptr,
                  _last_timer_value, _lock, pc, loc, race_frames,
                  _latest_snapshot, _race_active, last_ghost_path >>
  /\ UNCHANGED game_memory
  /\ UNCHANGED gvars

ProcessExit ==
  /\ proc = "running"
  /\ proc' = "absent"
  /\ UNCHANGED << gen, timer_hooked, cp_hooked, race_slot_val, cp_slot_val,
                  game_tick, _pm, _p_race_data_slot, _p_checkpoint_slot,
                  _race_data_ptr, _last_timer_value, _lock, pc, loc,
                  race_frames, _latest_snapshot, _race_active,
                  last_ghost_path >>
  /\ UNCHANGED game_memory
  /\ UNCHANGED gvars

\* A physics tick of a race: the timer advances, and the hooked instructions
\* run and store their register in the pointer slots.
GameTick ==
  /\ proc = "running"
  /\ game_tick < MaxGameTicks
  /\ game_tick' = game_tick + 1
  /\ race_slot_val' = IF timer_hooked THEN RaceDataAddr ELSE race_slot_val
  /\ cp_slot_val' = IF cp_hooked THEN CheckpointAddr ELSE cp_slot_val
  /\ UNCHANGED << proc, gen, timer_hooked, cp_hooked, _pm, _p_race_data_slot,
                  _p_checkpoint_slot, _race_data_ptr, _last_timer_value,
                  _lock, pc, loc, race_frames, _latest_snapshot, _race_active,
                  last_ghost_path >>
  /\ UNCHANGED game_memory
  /\ UNCHANGED gvars

\* The player starts the next race: the timer is back at 0.
GameRestart ==
  /\ proc = "running"
  /\ game_tick > 0
  /\ game_tick' = 0
  /\ UNCHANGED << proc, gen, timer_hooked, cp_hooked, race_slot_val,
                  cp_slot_val, _pm, _p_race_data_slot, _p_checkpoint_slot,
                  _race_data_ptr, _last_timer_value, _lock, pc, loc,
                  race_frames, _latest_snapshot, _race_active,
                  last_ghost_path >>
  /\ UNCHANGED game_memory
  /\ UNCHANGED gvars

\* ---- the threads
envvars ==
  << proc, gen, timer_hooked, cp_hooked, race_slot_val, cp_slot_val,
     game_tick, game_memory >>

guivars == << _latest_snapshot, _race_active >>

\* attach(timeout=0.0): main() tries once, race_loop retries every 2 s.
Attach(t) ==
  /\ t \in {"Main", "RaceLoop"}
  /\ pc[t] = "attach"
  /\ IF proc = "running"
     THEN /\ _pm' = Some(gen)
          /\ Goto(t, "find_timer")
     ELSE /\ t = "Main"
          /\ Goto(t, "spawn")
          /\ UNCHANGED _pm
  /\ UNCHANGED << envvars, _p_race_data_slot, _p_checkpoint_slot,
                  _race_data_ptr, _last_timer_value, _lock, loc, race_frames,
                  guivars, last_ghost_path >>
  /\ UNCHANGED gvars

\* _aob_scan finds a signature only in a live process whose site still holds
\* the original bytes, and may miss it there.
_aob_scan(hooked) == IF handle_ok /\ ~hooked THEN {TRUE, FALSE} ELSE {FALSE}

\* find_offsets, the timer hook: scan, and on a hit _inject_pointer_capture,
\* which raises when VirtualAllocEx fails and otherwise patches the site,
\* zeroes the new slot and returns the slot address.
FindTimer(t) ==
  /\ t \in {"Main", "RaceLoop"}
  /\ pc[t] = "find_timer"
  /\ \E timer_addr \in _aob_scan(timer_hooked), allocated \in BOOLEAN :
       IF timer_addr /\ allocated
       THEN /\ _p_race_data_slot' = Some(gen)
            /\ timer_hooked' = TRUE
            /\ race_slot_val' = 0
       ELSE UNCHANGED << _p_race_data_slot, timer_hooked, race_slot_val >>
  /\ Goto(t, "find_cp")
  /\ UNCHANGED << proc, gen, cp_hooked, cp_slot_val, game_tick, _pm,
                  _p_checkpoint_slot, _race_data_ptr, _last_timer_value,
                  _lock, loc, race_frames, guivars, last_ghost_path >>
  /\ UNCHANGED game_memory
  /\ UNCHANGED gvars

\* find_offsets, the checkpoint hook.
FindCp(t) ==
  /\ t \in {"Main", "RaceLoop"}
  /\ pc[t] = "find_cp"
  /\ \E cp_addr \in _aob_scan(cp_hooked), allocated \in BOOLEAN :
       IF cp_addr /\ allocated
       THEN /\ _p_checkpoint_slot' = Some(gen)
            /\ cp_hooked' = TRUE
            /\ cp_slot_val' = 0
       ELSE UNCHANGED << _p_checkpoint_slot, cp_hooked, cp_slot_val >>
  /\ Goto(t, IF t = "Main" THEN "spawn" ELSE "is_attached")
  /\ UNCHANGED << proc, gen, timer_hooked, race_slot_val, game_tick, _pm,
                  _p_race_data_slot, _race_data_ptr, _last_timer_value,
                  _lock, loc, race_frames, guivars, last_ghost_path >>
  /\ UNCHANGED game_memory
  /\ UNCHANGED gvars

\* main(): loop_thread.start() and gui.run(), which starts the poll thread.
Spawn ==
  /\ pc["Main"] = "spawn"
  /\ pc' = [pc EXCEPT !["Main"] = "gui", !["RaceLoop"] = "attach",
                      !["Poll"] = "poll"]
  /\ UNCHANGED << envvars, _pm, _p_race_data_slot, _p_checkpoint_slot,
                  _race_data_ptr, _last_timer_value, _lock, loc, race_frames,
                  guivars, last_ghost_path >>
  /\ UNCHANGED gvars

\* race_loop: while extractor.is_attached()
RaceIsAttached ==
  /\ pc["RaceLoop"] = "is_attached"
  /\ Goto("RaceLoop", IF is_attached THEN "wait_read_ptr" ELSE "attach")
  /\ UNCHANGED << envvars, _pm, _p_race_data_slot, _p_checkpoint_slot,
                  _race_data_ptr, _last_timer_value, _lock, loc, race_frames,
                  guivars, last_ghost_path >>
  /\ UNCHANGED gvars

\* wait_for_race_start: base = self._read_race_data_ptr()
WaitReadPtr ==
  /\ pc["RaceLoop"] = "wait_read_ptr"
  /\ \E base \in _read_race_data_ptr :
       /\ loc' = [loc EXCEPT !["RaceLoop"].base = base]
       /\ Goto("RaceLoop",
               IF base # 0 THEN "wait_read_progress" ELSE "wait_sleep")
  /\ UNCHANGED << envvars, _pm, _p_race_data_slot, _p_checkpoint_slot,
                  _race_data_ptr, _last_timer_value, _lock, race_frames,
                  guivars, last_ghost_path >>
  /\ UNCHANGED gvars

\* wait_for_race_start: the progress test; race_loop then starts an empty
\* race_frames.
WaitReadProgress ==
  /\ pc["RaceLoop"] = "wait_read_progress"
  /\ LET progress == _read_race_progress(loc["RaceLoop"].base)
     IN  IF progress # None /\ Val(progress) >= 0
         THEN /\ Goto("RaceLoop", "gs_acquire")
              /\ race_frames' = <<>>
         ELSE /\ Goto("RaceLoop", "wait_sleep")
              /\ UNCHANGED race_frames
  /\ loc' = [loc EXCEPT !["RaceLoop"] = NoLocals]
  /\ UNCHANGED << envvars, _pm, _p_race_data_slot, _p_checkpoint_slot,
                  _race_data_ptr, _last_timer_value, _lock, guivars,
                  last_ghost_path >>
  /\ UNCHANGED gvars

\* wait_for_race_start: time.sleep(0.1)
WaitSleep ==
  /\ pc["RaceLoop"] = "wait_sleep"
  /\ Goto("RaceLoop", "wait_read_ptr")
  /\ loc' = [loc EXCEPT !["RaceLoop"] = NoLocals]
  /\ UNCHANGED << envvars, _pm, _p_race_data_slot, _p_checkpoint_slot,
                  _race_data_ptr, _last_timer_value, _lock, race_frames,
                  guivars, last_ghost_path >>
  /\ UNCHANGED gvars

\* _poll_loop: if self._extractor.is_attached()
PollIsAttached ==
  /\ pc["Poll"] = "poll"
  /\ is_attached
  /\ Goto("Poll", "gs_acquire")
  /\ UNCHANGED << envvars, _pm, _p_race_data_slot, _p_checkpoint_slot,
                  _race_data_ptr, _last_timer_value, _lock, loc, race_frames,
                  guivars, last_ghost_path >>
  /\ UNCHANGED gvars

\* ---- get_snapshot, called by race_loop and by _poll_loop
Snapshooters == {"RaceLoop", "Poll"}

\* with self._lock:  (a race is followed for MaxRaceFrames snapshots)
\* get_snapshot entering its block without waiting for the lock.
GsAcquire_unlocked(t) ==
  /\ t \in Snapshooters
  /\ pc[t] = "gs_acquire"
  /\ t = "RaceLoop" => Len(race_frames) < MaxRaceFrames
  /\ _lock' = Some(t)
  /\ Goto(t, "gs_base")
  /\ UNCHANGED << envvars, _pm, _p_race_data_slot, _p_checkpoint_slot,
                  _race_data_ptr, _last_timer_value, loc, race_frames,
                  guivars, last_ghost_path >>
  /\ UNCHANGED gvars

\* with self._lock: the call waits until no other call holds the lock.
GsAcquire(t) ==
  /\ t \in Snapshooters
  /\ pc[t] = "gs_acquire"
  /\ t = "RaceLoop" => Len(race_frames) < MaxRaceFrames
  /\ _lock = None
  /\ _lock' = Some(t)
  /\ Goto(t, "gs_base")
  /\ UNCHANGED << envvars, _pm, _p_race_data_slot, _p_checkpoint_slot,
                  _race_data_ptr, _last_timer_value, loc, race_frames,
                  guivars, last_ghost_path >>
  /\ UNCHANGED gvars

\* base = self._read_race_data_ptr(); self._race_data_ptr = base
GsBase(t) ==
  /\ t \in Snapshooters
  /\ pc[t] = "gs_base"
  /\ \E base \in _read_race_data_ptr :
       /\ loc' = [loc EXCEPT ![t].base = base]
       /\ _race_data_ptr' = base
  /\ Goto(t, "gs_always")
  /\ UNCHANGED << envvars, _pm, _p_race_data_slot, _p_checkpoint_slot,
                  _last_timer_value, _lock, race_frames, guivars,
                  last_ghost_path >>
  /\ UNCHANGED gvars

\* The snapshot dict as get_snapshot first builds it.
sparse_snapshot(timer_value, race_completion) ==
  [k \in SnapshotKeys |->
     IF k = "timer_value" THEN timer_value
     ELSE IF k = "race_completion_pct" THEN race_completion
     ELSE None]

\* A reader called whatever the base is.
unguarded_read(base, value) == [issued |-> TRUE, value |-> value]

\* "self._read_x(base) if base else None": the reader is called only with a
\* non-zero base.
guarded_read(base, value) ==
  [issued |-> base # 0, value |-> IF base # 0 THEN value ELSE None]

\* The always-captured fields, the sparse snapshot, and the tick test.
GsAlways(t) ==
  /\ t \in Snapshooters
  /\ pc[t] = "gs_always"
  /\ LET base            == loc[t].base
         timer_read      == guarded_read(base, _read_timer(base))
         progress_read   == guarded_read(base, _read_race_progress(base))
         timer_value     == timer_read.value
         race_completion == progress_read.value
         update          == _has_physics_update(timer_value, _last_timer_value)
     IN  /\ loc' = [loc EXCEPT ![t] =
                      [base        |-> base,
                       timer_value |-> timer_value,
                       tick        |-> update.changed,
                       last_before |-> _last_timer_value,
                       invoked     |-> {},
                       failed      |-> {},
                       read_bases  |-> IF timer_read.issued
                                          \/ progress_read.issued
                                       THEN {base} ELSE {},
                       snapshot    |-> Some(sparse_snapshot(timer_value,
                                                            race_completion))]]
         /\ _last_timer_value' = update.last_timer_value
         /\ Goto(t, IF update.changed THEN "gs_full" ELSE "gs_release")
  /\ UNCHANGED << envvars, _pm, _p_race_data_slot, _p_checkpoint_slot,
                  _race_data_ptr, _lock, race_frames, guivars,
                  last_ghost_path >>
  /\ UNCHANGED gvars

\* The thirteen assignments behind the tick test, the remote reads of the
\* keys in failing raising inside their readers.
GsFullWith(t, failing) ==
  /\ t \in Snapshooters
  /\ pc[t] = "gs_full"
  /\ \E cp_base \in _read_checkpoint_ptr :
       loc' = [loc EXCEPT
                 ![t].snapshot =
                   Some([k \in SnapshotKeys |->
                           IF k \in FullTierKeys
                           THEN read_field_or_none(k, loc[t].base, cp_base,
                                                   failing)
                           ELSE Val(loc[t].snapshot)[k]]),
                 ![t].invoked = FullTierKeys,
                 ![t].failed = failing,
                 ![t].read_bases = @ \cup {loc[t].base}]
  /\ Goto(t, "gs_release")
  /\ UNCHANGED << envvars, _pm, _p_race_data_slot, _p_checkpoint_slot,
                  _race_data_ptr, _last_timer_value, _lock, race_frames,
                  guivars, last_ghost_path >>
  /\ UNCHANGED gvars

\* The thirteen assignments with reads that fail only where the game's
\* state makes them fail.
GsFull(t) == GsFullWith(t, {})

\* The thirteen assignments with reads that may fail one by one.
GsFullUnreliable(t) == \E failing \in SUBSET RemoteFields : GsFullWith(t, failing)

\* The end of the with block; return snapshot.
GsRelease(t) ==
  /\ t \in Snapshooters
  /\ pc[t] = "gs_release"
  /\ _lock' = None
  /\ Goto(t, "gs_return")
  /\ UNCHANGED << envvars, _pm, _p_race_data_slot, _p_checkpoint_slot,
                  _race_data_ptr, _last_timer_value, loc, race_frames,
                  guivars, last_ghost_path >>
  /\ UNCHANGED gvars

\* race_loop: race_frames.append(snapshot), then detect_race_end only when a
\* ghost path is configured.
RaceAppend ==
  /\ pc["RaceLoop"] = "gs_return"
  /\ race_frames' = Append(race_frames, Val(loc["RaceLoop"].snapshot))
  /\ loc' = [loc EXCEPT !["RaceLoop"] = NoLocals]
  /\ Goto("RaceLoop",
          IF last_ghost_path # None THEN "detect_race_end" ELSE "rec_sleep")
  /\ UNCHANGED << envvars, _pm, _p_race_data_slot, _p_checkpoint_slot,
                  _race_data_ptr, _last_timer_value, _lock, guivars,
                  last_ghost_path >>
  /\ UNCHANGED gvars

\* A detector that hands the session over whatever the base pointer reads.
detect_saves_regardless(base) == TRUE

\* detect_race_end saves and returns True: not when base == 0, and then only
\* if race_ended.
detect_saves(base) == base # 0 /\ race_ended

\* detect_race_end(ghost_manager, ghost_filepath, race_frames)
DetectRaceEnd ==
  /\ pc["RaceLoop"] = "detect_race_end"
  /\ \E base \in _read_race_data_ptr :
       IF detect_saves(base)
       THEN /\ LET ghost == save_race_data(files[Val(last_ghost_path)],
                                           race_frames)
               IN  /\ files' = [files EXCEPT
                                  ![Val(last_ghost_path)] = json_dump(ghost)]
                   /\ active_ghost' = Some(ghost)
                   /\ active_path' = last_ghost_path
            /\ Goto("RaceLoop", "is_attached")
            /\ UNCHANGED << last, nsaves >>
       ELSE /\ Goto("RaceLoop", "rec_sleep")
            /\ UNCHANGED gvars
  /\ UNCHANGED << envvars, _pm, _p_race_data_slot, _p_checkpoint_slot,
                  _race_data_ptr, _last_timer_value, _lock, loc, race_frames,
                  guivars, last_ghost_path >>

\* race_loop: time.sleep(0.001) and the next snapshot.
RecSleep ==
  /\ pc["RaceLoop"] = "rec_sleep"
  /\ Goto("RaceLoop", "gs_acquire")
  /\ UNCHANGED << envvars, _pm, _p_race_data_slot, _p_checkpoint_slot,
                  _race_data_ptr, _last_timer_value, _lock, loc, race_frames,
                  guivars, last_ghost_path >>
  /\ UNCHANGED gvars

\* _poll_loop: publish the snapshot and derive _race_active.
PollPublish ==
  /\ pc["Poll"] = "gs_return"
  /\ LET snap       == Val(loc["Poll"].snapshot)
         completion == snap["race_completion_pct"]
     IN  /\ _latest_snapshot' = Some(snap)
         /\ _race_active' = (/\ completion # None
                             /\ 0 <= Val(completion)
                             /\ Val(completion) < 100)
  /\ loc' = [loc EXCEPT !["Poll"] = NoLocals]
  /\ Goto("Poll", "poll")
  /\ UNCHANGED << envvars, _pm, _p_race_data_slot, _p_checkpoint_slot,
                  _race_data_ptr, _last_timer_value, _lock, race_frames,
                  last_ghost_path >>
  /\ UNCHANGED gvars

\* The program next to the game: main(), the race loop and the GUI's poll
\* thread, with or without a ghost path in the config.
Init ==
  /\ ManagerInit
  /\ ExtractorInit
  /\ last_ghost_path \in {None, Some(MainPath)}

Next ==
  \/ ProcessStart
  \/ ProcessExit
  \/ GameTick
  \/ GameRestart
  \/ \E t \in Threads : Attach(t)
  \/ \E t \in Threads : FindTimer(t)
  \/ \E t \in Threads : FindCp(t)
  \/ Spawn
  \/ RaceIsAttached
  \/ WaitReadPtr
  \/ WaitReadProgress
  \/ WaitSleep
  \/ PollIsAttached
  \/ \E t \in Threads : GsAcquire(t)
  \/ \E t \in Threads : GsBase(t)
  \/ \E t \in Threads : GsAlways(t)
  \/ \E t \in Threads : GsFull(t)
  \/ \E t \in Threads : GsRelease(t)
  \/ RaceAppend
  \/ DetectRaceEnd
  \/ RecSleep
  \/ PollPublish

Spec == Init /\ [][Next]_vars

\* The GUI's poll thread alone on the extractor main() has set up, every
\* remote read of a field being free to fail on its own.
SnapNext ==
  \/ ProcessStart
  \/ ProcessExit
  \/ GameTick
  \/ GameRestart
  \/ Attach("Main")
  \/ FindTimer("Main")
  \/ FindCp("Main")
  \/ Spawn
  \/ PollIsAttached
  \/ GsAcquire("Poll")
  \/ GsBase("Poll")
  \/ GsAlways("Poll")
  \/ GsFullUnreliable("Poll")
  \/ GsRelease("Poll")
  \/ PollPublish

SnapSpec == Init /\ [][SnapNext]_vars

\* A step of the race loop thread.
RaceLoopStep ==
  \/ Attach("RaceLoop")
  \/ FindTimer("RaceLoop")
  \/ FindCp("RaceLoop")
  \/ RaceIsAttached
  \/ WaitReadPtr
  \/ WaitReadProgress
  \/ WaitSleep
  \/ GsAcquire("RaceLoop")
  \/ GsBase("RaceLoop")
  \/ GsAlways("RaceLoop")
  \/ GsFull("RaceLoop")
  \/ GsRelease("RaceLoop")
  \/ RaceAppend
  \/ DetectRaceEnd
  \/ RecSleep

\* main() and the race loop next to the game, the GUI not polling.
LoopNext ==
  \/ ProcessStart
  \/ ProcessExit
  \/ GameTick
  \/ GameRestart
  \/ Attach("Main")
  \/ FindTimer("Main")
  \/ FindCp("Main")
  \/ Spawn
  \/ RaceLoopStep

\* The race loop is a thread of its own and keeps running: none of its
\* sleeps lasts forever.
LoopSpec == Init /\ [][LoopNext]_vars /\ WF_vars(RaceLoopStep)

\* How often the game is started again after it ended.
MaxRestarts == 1

\* The game is started again: a new process with its code unpatched and
\* none of the old process's allocations.
ProcessRestart ==
  /\ proc = "absent"
  /\ gen >= MaxProcs
  /\ gen < MaxProcs + MaxRestarts
  /\ proc' = "running"
  /\ gen' = gen + 1
  /\ timer_hooked' = FALSE
  /\ cp_hooked' = FALSE
  /\ race_slot_val' = 0
  /\ cp_slot_val' = 0
  /\ game_tick' = 0
  /\ UNCHANGED << _pm, _p_race_data_slot, _p_checkpoint_slot, _race_data_ptr,
                  _last_timer_value, _lock, pc, loc, race_frames,
                  _latest_snapshot, _race_active, last_ghost_path >>
  /\ UNCHANGED game_memory
  /\ UNCHANGED gvars

\* main() and the race loop with a game that ends and is started again.
RestartNext ==
  \/ LoopNext
  \/ ProcessRestart

RestartSpec == Init /\ [][RestartNext]_vars

\* Threads that would keep the interpreter alive after main() returns.
daemon_false == FALSE

\* main() and the GUI start their threads with daemon=True: the interpreter
\* ends them when main() returns.
daemon == TRUE

\* The user closes the window: gui.run() returns.
CloseWindow ==
  /\ pc["Main"] = "gui"
  /\ Goto("Main", "closing")
  /\ UNCHANGED << envvars, _pm, _p_race_data_slot, _p_checkpoint_slot,
                  _race_data_ptr, _last_timer_value, _lock, loc, race_frames,
                  guivars, last_ghost_path >>
  /\ UNCHANGED gvars

\* main() stores the config and returns; the interpreter exits and its
\* daemon threads end where they stand, a wait_for_race_start in progress
\* included.
MainReturn ==
  /\ pc["Main"] = "closing"
  /\ pc' = [t \in Threads |->
              IF t = "Main" THEN "exited"
              ELSE IF ~daemon THEN pc[t]
              ELSE IF t = "RaceLoop"
                      /\ pc[t] \in {"wait_read_ptr", "wait_read_progress",
                                     "wait_sleep"}
              THEN "wait_cancelled"
              ELSE "ended"]
  /\ UNCHANGED << envvars, _pm, _p_race_data_slot, _p_checkpoint_slot,
                  _race_data_ptr, _last_timer_value, _lock, loc, race_frames,
                  guivars, last_ghost_path >>
  /\ UNCHANGED gvars

\* main() and the race loop from start to the closing of the window.
ShutdownNext ==
  \/ LoopNext
  \/ CloseWindow
  \/ MainReturn

ShutdownSpec ==
  /\ Init
  /\ [][ShutdownNext]_vars
  /\ WF_vars(RaceLoopStep)
  /\ WF_vars(MainReturn)

\* ------------------------------------------- _inject_pointer_capture
\* Addresses of a 64-bit process are pairs of a low part of 16 bits and the
\* rest, hi * 2^16 + lo; differences and sign-extended addresses have a
\* negative hi.
Limb == 65536

Addr(hi, lo) == [hi |-> hi, lo |-> lo]

Norm(hi, lo) == [hi |-> hi + (lo \div Limb), lo |-> lo % Limb]

Plus(a, k) == Norm(a.hi, a.lo + k)

Minus(a, b) == Norm(a.hi - b.hi, a.lo - b.lo)

\* struct.pack("<i", d) raises struct.error outside -2^31 .. 2^31 - 1.
FitsInt32(d) == d.hi >= -32768 /\ d.hi <= 32767

\* a & 0xFFFF_FFFF
Low32(a) == [hi |-> a.hi % Limb, lo |-> a.lo]

\* The address a 32-bit displacement stands for in 64-bit mode.
SignExtend32(u) == IF u.hi >= 32768 THEN [hi |-> u.hi - Limb, lo |-> u.lo] ELSE u

\* What ctypes hands back for a pointer result while no restype is set on
\* the function: a C int.
as_c_int(a) == SignExtend32(Low32(a))

\* len(AOB_RACE_TIMER) and len(AOB_CHECKPOINT)
orig_len == 7

alloc_size == 128

\* The calls into the target process that the target can deny.  A denied
\* call returns 0 and changes nothing; VirtualProtectEx is denied for the
\* relaxing and the restoring call alike.
InjectCalls ==
  {"VirtualAllocEx", "WriteProcessMemory:trampoline", "WriteProcessMemory:slot",
   "VirtualProtectEx", "WriteProcessMemory:patch"}

\* The exception _inject_pointer_capture ends with, "" when it returns: the
\* result of VirtualAllocEx is the only return value it tests, and the two
\* struct.pack("<i", ...) and the conversion of an address argument raise.
inject_raises(trampoline_addr, rel_jmp, jmp_rel, arg_error, denied) ==
  IF "VirtualAllocEx" \in denied \/ trampoline_addr = Addr(0, 0)
  THEN "MemoryError"
  ELSE IF ~FitsInt32(rel_jmp) THEN "struct.error"
  ELSE IF arg_error THEN "ArgumentError"
  ELSE IF ~FitsInt32(jmp_rel) THEN "struct.error"
  ELSE ""

\* An address passed to kernel32 arrives whole when the function has a
\* prototype; without one ctypes passes a C int, which holds addresses below
\* 2^31 only.
Arrives(a, prototyped) == prototyped \/ (a.hi >= 0 /\ a.hi < 32768)

\* Without a prototype ctypes raises ArgumentError for an int that is no C
\* long or unsigned long.
ArgumentError(a, prototyped) == ~prototyped /\ ~(a.hi >= -32768 /\ a.hi < Limb)

\* _inject_pointer_capture(pm, aob_address, original_bytes) on a target whose
\* memory is mem, where VirtualAllocEx allocates at alloc and the target
\* denies the calls in denied: the exception raised, the slot address
\* returned, and the target's memory afterwards.
_inject_pointer_capture(aob_address, alloc, denied, prototyped, mem) ==
  LET allocated         == "VirtualAllocEx" \notin denied
      trampoline_addr   == IF ~allocated THEN Addr(0, 0)
                           ELSE IF prototyped THEN alloc ELSE as_c_int(alloc)
      pointer_slot_addr == Plus(trampoline_addr, alloc_size - 8)
      ret_addr          == Plus(aob_address, orig_len)
      len_shellcode     == orig_len + 1 + 3 + 4 + 4 + 1
      rel_jmp           == Minus(ret_addr,
                                 Plus(trampoline_addr, len_shellcode + 5))
      jmp_rel           == Minus(trampoline_addr, Plus(aob_address, 5))
      arg_error         == ArgumentError(aob_address, prototyped)
      raised            == inject_raises(trampoline_addr, rel_jmp, jmp_rel,
                                         arg_error, denied)
      built             == /\ allocated
                           /\ trampoline_addr # Addr(0, 0)
                           /\ FitsInt32(rel_jmp)
      code_written      == /\ built
                           /\ "WriteProcessMemory:trampoline" \notin denied
                           /\ trampoline_addr = alloc
      relaxed           == /\ built
                           /\ ~arg_error
                           /\ "VirtualProtectEx" \notin denied
                           /\ Arrives(aob_address, prototyped)
      at_patch          == built /\ ~arg_error /\ FitsInt32(jmp_rel)
      patched           == /\ at_patch
                           /\ "WriteProcessMemory:patch" \notin denied
                           /\ Arrives(aob_address, prototyped)
      restored          == at_patch /\ relaxed
  IN  [raised |-> raised,
       ret    |-> IF raised = "" THEN Some(pointer_slot_addr) ELSE None,
       memory |->
         [site_protect |-> IF relaxed /\ ~restored
                           THEN PAGE_EXECUTE_READWRITE ELSE mem.site_protect,
          site_jump    |-> IF patched THEN Some(trampoline_addr)
                           ELSE mem.site_jump,
          allocation   |-> IF allocated THEN Some(alloc) ELSE None,
          tramp_store  |-> IF code_written
                           THEN Some(SignExtend32(Low32(pointer_slot_addr)))
                           ELSE None,
          slot_value   |-> 0,
          stray_store  |-> FALSE,
          crashed      |-> FALSE]]

\* Where the game maps its code and where VirtualAllocEx places the 128
\* bytes: below 2 GiB, between 2 and 4 GiB, above 4 GiB.
AobAddrs ==
  {Addr(64, 0), Addr(32769, 3), Addr(32769, 18), Addr(36864, 0),
   Addr(81920, 4096), Addr(2146828288, 4096)}

AllocAddrs ==
  {Addr(1, 0), Addr(32768, 0), Addr(65536, 0), Addr(65537, 0),
   Addr(77824, 0)}

\* Everything but the game's memory that an injection leaves alone.
outside_memory ==
  << proc, gen, timer_hooked, cp_hooked, race_slot_val, cp_slot_val,
     game_tick, _pm, _p_race_data_slot, _p_checkpoint_slot, _race_data_ptr,
     _last_timer_value, _lock, pc, loc, race_frames, _latest_snapshot,
     _race_active, last_ghost_path, files, active_ghost, active_path,
     nsaves >>

\* find_offsets calls _inject_pointer_capture on the site its scan found.
InjectPointerCapture(aob_address, alloc, denied, prototyped) ==
  /\ pc["Main"] = "find_timer"
  /\ handle_ok
  /\ last.op = "none"
  /\ LET r == _inject_pointer_capture(aob_address, alloc, denied, prototyped,
                                      game_memory)
     IN  /\ game_memory' = r.memory
         /\ last' = [op |-> "_inject_pointer_capture",
                     aob_address |-> aob_address, alloc |-> alloc,
                     denied |-> denied, prototyped |-> prototyped,
                     raised |-> r.raised, ret |-> r.ret,
                     protect_before |-> game_memory.site_protect,
                     hit |-> None, read |-> None]
  /\ UNCHANGED outside_memory

\* The game runs the instruction at the site: a patched site jumps, the
\* trampoline stores the register where its mov points and jumps back.  A
\* jump that does not land on written trampoline code ends the game; a store
\* outside the allocation ends the game or lands in some other mapping.
SiteHit(reg) ==
  /\ proc = "running"
  /\ game_memory.site_jump # None
  /\ ~game_memory.crashed
  /\ last.hit = None
  /\ LET m     == game_memory
         lands == m.allocation = m.site_jump /\ m.tramp_store # None
     IN  IF ~lands
         THEN game_memory' = [m EXCEPT !.crashed = TRUE]
         ELSE IF Val(m.tramp_store) = Plus(Val(m.allocation), alloc_size - 8)
         THEN game_memory' = [m EXCEPT !.slot_value = reg]
         ELSE \E faults \in BOOLEAN :
                game_memory' = [m EXCEPT !.crashed = faults,
                                         !.stray_store = ~faults]
  /\ last' = [last EXCEPT !.op = "site_hit", !.hit = Some(reg)]
  /\ UNCHANGED outside_memory

\* _read_race_data_ptr on the slot address the injection returned: the
\* slot's content, 0 when the read raises, and whatever is mapped there when
\* the address is not the slot's.
ReadInjectedSlot ==
  /\ last.op \in {"_inject_pointer_capture", "site_hit"}
  /\ last.ret # None
  /\ LET m == game_memory
     IN  \E v \in (IF m.crashed THEN {0}
                   ELSE IF Val(last.ret) = Plus(Val(m.allocation), alloc_size - 8)
                   THEN {m.slot_value}
                   ELSE {0, WildAddr}) :
           last' = [last EXCEPT !.op = "_read_race_data_ptr", !.read = Some(v)]
  /\ UNCHANGED game_memory
  /\ UNCHANGED outside_memory

\* One injection into a running game, hits of the site and reads of the
\* slot.
InjectNext ==
  \/ ProcessStart
  \/ Attach("Main")
  \/ \E aob_address \in AobAddrs, alloc \in AllocAddrs,
        denied \in SUBSET InjectCalls, prototyped \in BOOLEAN :
       InjectPointerCapture(aob_address, alloc, denied, prototyped)
  \/ SiteHit(RaceDataAddr)
  \/ ReadInjectedSlot

InjectSpec == GhostInit /\ [][InjectNext]_vars

\* What pymem's pattern_scan_module does for one signature: it raises, finds
\* nothing, or finds the site.
ScanOutcomes ==
  {[raised |-> TRUE, result |-> None], [raised |-> FALSE, result |-> None]}
  \cup {[raised |-> FALSE, result |-> Some(a)] :
          a \in {Addr(64, 0), Addr(80, 0), Addr(32769, 3)}}

\* _aob_scan(pattern): the address found, None when the scan raised.
aob_scan_result(scan) == IF scan.raised THEN None ELSE scan.result

\* One signature's part of find_offsets: scan, on a hit inject inside
\* try/except Exception, and clear success on a miss or an exception.
hook_signature(sig) ==
  LET addr == aob_scan_result(sig.scan)
  IN  IF addr = None
      THEN [found |-> FALSE, attempted |-> FALSE, ok |-> FALSE, slot |-> None,
            raised |-> "", memory |-> UntouchedMemory]
      ELSE LET r == _inject_pointer_capture(Val(addr), sig.alloc, sig.denied,
                                            sig.prototyped, UntouchedMemory)
           IN  [found |-> TRUE, attempted |-> TRUE, ok |-> r.raised = "",
                slot |-> r.ret, raised |-> r.raised, memory |-> r.memory]

\* find_offsets(): the timer signature, then the checkpoint signature, and
\* the conjunction of the two outcomes as return value.
find_offsets(timer_sig, cp_sig) ==
  LET timer == hook_signature(timer_sig)
      cp    == hook_signature(cp_sig)
  IN  [raised |-> "", ret |-> timer.ok /\ cp.ok, timer |-> timer, cp |-> cp]

\* The scan and the target's answers for one signature.
SignatureRuns ==
  [scan : ScanOutcomes, alloc : {Addr(1, 0), Addr(2, 0), Addr(65537, 0)},
   denied : {{}} \cup {{c} : c \in InjectCalls}, prototyped : BOOLEAN]

\* main() calls find_offsets on the attached process.
FindOffsets(timer_sig, cp_sig) ==
  /\ pc["Main"] = "find_timer"
  /\ handle_ok
  /\ last.op = "none"
  /\ timer_sig.alloc # cp_sig.alloc
  /\ timer_sig.prototyped = cp_sig.prototyped
  /\ timer_sig.scan.result = None \/ timer_sig.scan.result # cp_sig.scan.result
  /\ LET r == find_offsets(timer_sig, cp_sig)
     IN  /\ _p_race_data_slot' =
              IF r.timer.ok THEN r.timer.slot ELSE _p_race_data_slot
         /\ _p_checkpoint_slot' =
              IF r.cp.ok THEN r.cp.slot ELSE _p_checkpoint_slot
         /\ game_memory' = r.timer.memory
         /\ last' = [op |-> "find_offsets", timer_sig |-> timer_sig,
                     cp_sig |-> cp_sig, raised |-> r.raised, ret |-> r.ret,
                     timer |-> r.timer, cp |-> r.cp]
  /\ Goto("Main", "spawn")
  /\ UNCHANGED << proc, gen, timer_hooked, cp_hooked, race_slot_val,
                  cp_slot_val, game_tick, _pm, _race_data_ptr,
                  _last_timer_value, _lock, loc, race_frames, guivars,
                  last_ghost_path >>
  /\ UNCHANGED << files, active_ghost, active_path, nsaves >>

\* find_offsets on a running game, once.
OffsetsNext ==
  \/ ProcessStart
  \/ Attach("Main")
  \/ \E timer_sig \in SignatureRuns, cp_sig \in SignatureRuns :
       FindOffsets(timer_sig, cp_sig)

OffsetsSpec == GhostInit /\ [][OffsetsNext]_vars

\* ------------------------------------------- measures used by the claims
\* The ghost save_race_data has just written, and its best_splits.
SavedBest == GetOr(Val(active_ghost), "best_splits", <<>>)

JustSaved == last.op = "save_race_data"

RegionsOf(splits) ==
  LET bs == boundaries(splits) IN {bs[i] : i \in 1..Len(bs)}

\* A run sampled once per progress value: the timer starts at 0, progress is
\* strictly increasing, timers never decrease, and there is a sample on every
\* boundary of every region.
CleanRun(frames, splits) ==
  /\ Len(frames) > 0
  /\ \A i \in 1..Len(frames) : HasTimer(frames[i]) /\ HasPct(frames[i])
  /\ Timer(frames[1]) = 0
  /\ \A i \in 1..(Len(frames) - 1) :
       /\ Pct(frames[i]) < Pct(frames[i + 1])
       /\ Timer(frames[i]) <= Timer(frames[i + 1])
  /\ \A b \in RegionsOf(splits) :
       /\ \E i \in 1..Len(frames) : Pct(frames[i]) = b.start_pct
       /\ \E i \in 1..Len(frames) : Pct(frames[i]) = b.end_pct

\* The timer of a clean run at a sampled progress value.
TimeAt(frames, pct) ==
  Timer(frames[CHOOSE i \in 1..Len(frames) : Pct(frames[i]) = pct])

\* The time a clean run spends in region b.
RegionTime(frames, b) == TimeAt(frames, b.end_pct) - TimeAt(frames, b.start_pct)

\* The entries of a clean run in region b, re-based to 0 at the region start.
RegionEntries(frames, b) ==
  LET reg == SelectSeq(frames,
               LAMBDA f : b.start_pct <= Pct(f) /\ Pct(f) <= b.end_pct)
  IN  [i \in 1..Len(reg) |->
         Entry(Timer(reg[i]) - TimeAt(frames, b.start_pct), Pct(reg[i]))]

\* A clean run stored region by region.
StoredPerRegion(frames, splits) ==
  LET bs == boundaries(splits)
  IN  Concat([i \in 1..Len(bs) |-> RegionEntries(frames, bs[i])])

\* The stored best is the previous run, and the run just saved is clean.
BestIsPreviousRun ==
  /\ JustSaved
  /\ CleanRun(last.old_race_data, last.splits)
  /\ CleanRun(last.race_frames, last.splits)
  /\ last.old_best = StoredPerRegion(last.old_race_data, last.splits)

\* C3: when best_splits holds the previous run and the run just saved is
\* strictly faster than it in every region, save_race_data leaves in every
\* region of best_splits the new run's frames of that region, the regions
\* after the first included.
C3_FasterRunReplacesEveryRegion ==
  (/\ BestIsPreviousRun
   /\ \A b \in RegionsOf(last.splits) :
        RegionTime(last.race_frames, b) < RegionTime(last.old_race_data, b))
  => SavedBest = StoredPerRegion(last.race_frames, last.splits)

\* C4: when best_splits holds the previous run and the run just saved is
\* strictly slower than it in every region, save_race_data leaves best_splits
\* exactly as it was: the same entries in the same order, none duplicated,
\* also when entries lie exactly on a split.
C4_SlowerRunLeavesBestUnchanged ==
  (/\ BestIsPreviousRun
   /\ \A b \in RegionsOf(last.splits) :
        RegionTime(last.race_frames, b) > RegionTime(last.old_race_data, b))
  => SavedBest = last.old_best

\* The stored best of the scenario: 0..1000 over 0..50 %, 0..1200 over
\* 50..100 %.
ScenarioOldBest ==
  << Entry(0, 0), Entry(1000, 50), Entry(0, 50), Entry(1200, 100) >>

\* Region 1 of the new run (900), region 2 of the stored best (1200).
ScenarioExpectedBest ==
  << Entry(0, 0), Entry(900, 50), Entry(0, 50), Entry(1200, 100) >>

\* C5: in the scenario of section 8 (one split at 50 %, stored 1000 + 1200,
\* driven 900 + 1300) save_race_data takes region 1 from the new run and
\* keeps the stored region 2: region times 900 and 1200, total 2100.
C5_ScenarioTotals2100 ==
  (/\ JustSaved
   /\ last.splits = ScenarioSplits
   /\ last.old_best = ScenarioOldBest
   /\ last.race_frames = ScenarioNewRun)
  => SavedBest = ScenarioExpectedBest

\* seq splits into one piece per region from region k on, each piece inside
\* its region and, when not empty, starting at timer 0 with no timer below 0.
RECURSIVE Segmented(_, _, _)
Segmented(seq, bs, k) ==
  IF k > Len(bs) THEN seq = <<>>
  ELSE \E n \in 0..Len(seq) :
         /\ \A i \in 1..n :
              /\ HasTimer(seq[i]) /\ HasPct(seq[i])
              /\ bs[k].start_pct <= Pct(seq[i]) /\ Pct(seq[i]) <= bs[k].end_pct
              /\ Timer(seq[i]) >= 0
         /\ n > 0 => Timer(seq[1]) = 0
         /\ Segmented(SubSeq(seq, n + 1, Len(seq)), bs, k + 1)

\* C6: after any sequence of create_ghost and save_race_data calls,
\* best_splits is the concatenation, in region order, of one sub-sequence per
\* region, each non-empty one starting at timer_value 0 and none holding a
\* negative timer_value.
C6_BestIsRebasedRegions ==
  active_ghost # None
    => Segmented(SavedBest,
                 boundaries(GetOr(Val(active_ghost), "splits", <<>>)), 1)

\* C7: save_race_data(path, F) followed by load_ghost(path) returns a
\* document whose race_data equals F.
C7_SaveThenLoadReturnsFrames ==
  [][(/\ JustSaved
      /\ last'.op = "load_ghost"
      /\ last'.path = last.path)
     => (/\ last'.raised = ""
         /\ Val(last'.ret)["race_data"] = last.race_frames)]_vars

JustInterpolated == last.op = "interpolate_ghost_timer"

ActiveBest == GetOr(Val(active_ghost), "best_splits", <<>>)

\* The entries of best_splits that store both a timer and a progress.
StoredEntries(best) ==
  {i \in 1..Len(best) : HasTimer(best[i]) /\ HasPct(best[i])}

\* The result r of interpolate_ghost_timer is the number t.
Returns(r, t) == r # None /\ Val(r).num = t * Val(r).den

C10_LoadGhostValidates ==
  last.op = "load_ghost"
  => /\ last.file = NoFile => last.raised = "FileNotFoundError"
     /\ (/\ last.file.t = "obj"
         /\ \E k \in {"splits", "best_splits", "race_data"} :
              k \notin DOMAIN last.file.v)
          => last.raised = "ValueError"
     /\ last.raised = ""
          => /\ last.file.t = "obj"
             /\ {"splits", "best_splits", "race_data"} \subseteq DOMAIN last.file.v
             /\ last.ret = Some(json_load(last.file))

\* load_ghost was called on a document that has every key but splits.
C10_Witness ==
  /\ last.op = "load_ghost"
  /\ last.file.t = "obj"
  /\ DOMAIN last.file.v = {"best_splits", "race_data"}
  /\ last.raised = "ValueError"

\* The call of get_snapshot by thread t has returned and its result is not
\* yet consumed.
Returned(t) == pc[t] = "gs_return"

\* The timer read of the call was a number other than the last_timer_value
\* the call found.
TickDetected(t) ==
  /\ loc[t].timer_value # None
  /\ Val(loc[t].timer_value) # loc[t].last_before

\* C1: every snapshot get_snapshot returns has either all full-tier fields
\* None and none of their readers invoked, because no tick was detected (the
\* timer read is None or equals last_timer_value), or all full-tier readers
\* invoked, because a tick was detected; never some invoked and others not.
C1_FullTierAllOrNothing ==
  \A t \in Snapshooters :
    Returned(t)
    => LET snap == Val(loc[t].snapshot)
       IN  /\ snap["timer_value"] = loc[t].timer_value
           /\ ~TickDetected(t)
                => /\ loc[t].invoked = {}
                   /\ \A k \in FullTierKeys : snap[k] = None
           /\ TickDetected(t) => loc[t].invoked = FullTierKeys
           /\ loc[t].invoked \in {{}, FullTierKeys}

\* The poll thread got a snapshot on a tick, with the gear read from the game.
C1_Witness ==
  /\ Returned("Poll")
  /\ TickDetected("Poll")
  /\ loc["Poll"].invoked = FullTierKeys
  /\ Val(loc["Poll"].snapshot)["gear"] # None
  /\ Val(loc["Poll"].snapshot)["velocity"] = None

\* Thread u reads a captured-pointer slot or injects a pointer capture in
\* this step.
TouchesPointerCapture(u) ==
  \/ /\ pc[u] \in {"wait_read_ptr", "detect_race_end", "gs_base"}
     /\ pc'[u] # pc[u]
     /\ _p_race_data_slot # None /\ _pm # None
  \/ /\ pc[u] = "gs_full"
     /\ pc'[u] # pc[u]
     /\ _p_checkpoint_slot # None /\ _pm # None
  \/ /\ pc[u] = "find_timer"
     /\ pc'[u] # pc[u]
     /\ _p_race_data_slot' # _p_race_data_slot \/ timer_hooked' # timer_hooked
  \/ /\ pc[u] = "find_cp"
     /\ pc'[u] # pc[u]
     /\ _p_checkpoint_slot' # _p_checkpoint_slot \/ cp_hooked' # cp_hooked

\* C2: while a thread is inside get_snapshot, between acquiring and releasing
\* the extractor lock, no other thread reads a captured-pointer slot or
\* injects a pointer capture.
C2_SnapshotExcludesPointerAccess ==
  [][\A t \in Snapshooters : \A u \in Threads \ {t} :
       ~(_lock = Some(t) /\ TouchesPointerCapture(u))]_vars

\* C11: no load_ghost or save_race_data on an existing file that cannot be
\* parsed defaults silently: the file and the active ghost are left as they
\* were (load_ghost raises), so the stored splits and best_splits are never
\* replaced by those of an empty document.
C11_UnparseableFileNeverDefaulted ==
  [][\A p \in Paths :
       (/\ isfile(files[p])
        /\ ~parses(files[p])
        /\ last'.op \in {"load_ghost", "save_race_data"}
        /\ last'.path = p)
       => (/\ files'[p] = files[p]
           /\ active_ghost' = active_ghost
           /\ last'.op = "load_ghost" => last'.raised # "")]_vars

\* C12: create_ghost(path, splits) writes and returns a document with empty
\* race_data and best_splits whose splits are the given list, or empty when
\* none is given, and makes it the active ghost with active path = path.
C12_CreateGhostWritesEmptyDocument ==
  last.op = "create_ghost"
  => /\ last.ret["race_data"] = <<>>
     /\ last.ret["best_splits"] = <<>>
     /\ last.ret["splits"] =
          (IF last.splits_config = None THEN <<>> ELSE Val(last.splits_config))
     /\ DOMAIN last.ret = RequiredKeys
     /\ parses(files[last.path])
     /\ json_load(files[last.path]) = last.ret
     /\ active_ghost = Some(last.ret)
     /\ active_path = Some(last.path)

\* create_ghost was called with two splits while a file of another origin
\* lies next to the new ghost.
C12_Witness ==
  /\ last.op = "create_ghost"
  /\ last.splits_config # None
  /\ Len(Val(last.splits_config)) = 2
  /\ last.ret["splits"] = Val(last.splits_config)
  /\ files[ImportPath] # NoFile

\* The value a captured-pointer read may return in the current state: 0
\* without an injected slot, without a handle and when the read fails; the
\* slot's content when the slot lies in the process the handle is open on.
PointerReadAllows(slot, content, value) ==
  /\ (slot = None \/ _pm = None) => value = 0
  /\ (_pm # None /\ (proc # "running" \/ Val(_pm) # gen)) => value = 0
  /\ (slot # None /\ _pm # None /\ proc = "running" /\ Val(_pm) = gen
        /\ Val(slot) = gen)
       => value = content

\* C13: _read_race_data_ptr and _read_checkpoint_ptr never raise: they return
\* 0 when no slot was injected, when not attached and when the memory read
\* fails, and the slot's value otherwise; their callers go on to their next
\* statement.
C13_PointerReadsNeverRaise ==
  [][\A t \in Threads :
       /\ (pc[t] = "gs_base" /\ pc'[t] # pc[t])
            => /\ PointerReadAllows(_p_race_data_slot, race_slot_val,
                                    loc'[t].base)
               /\ pc'[t] = "gs_always"
       /\ (pc[t] = "wait_read_ptr" /\ pc'[t] # pc[t])
            => /\ PointerReadAllows(_p_race_data_slot, race_slot_val,
                                    loc'[t].base)
               /\ pc'[t] \in {"wait_read_progress", "wait_sleep"}
       /\ (pc[t] = "gs_full" /\ pc'[t] # pc[t])
            => /\ \E cp_base \in {0, cp_slot_val, WildAddr} :
                    /\ PointerReadAllows(_p_checkpoint_slot, cp_slot_val,
                                         cp_base)
                    /\ Val(loc'[t].snapshot)["checkpoint"] =
                         _read_checkpoint(cp_base)
               /\ pc'[t] = "gs_release"]_vars

\* The poll thread read base 0 through an injected slot that holds a captured
\* pointer, the game having exited.
C13_Witness ==
  /\ pc["Poll"] = "gs_always"
  /\ loc["Poll"].base = 0
  /\ _p_race_data_slot # None
  /\ race_slot_val = RaceDataAddr
  /\ proc = "absent"

\* C14: in a get_snapshot call that detected a tick, a failing read of a
\* field yields None for that field only: every full-tier reader is invoked,
\* the fields whose read did not fail hold what their reader returns, and the
\* call goes on to return, for every subset of failing reads.
C14_FieldReadersFailSoft ==
  [][\A t \in Snapshooters :
       (pc[t] = "gs_full" /\ pc'[t] # pc[t])
       => /\ pc'[t] = "gs_release"
          /\ loc'[t].invoked = FullTierKeys
          /\ \A k \in loc'[t].failed : Val(loc'[t].snapshot)[k] = None
          /\ \E cp_base \in _read_checkpoint_ptr :
               \A k \in FullTierKeys \ loc'[t].failed :
                 Val(loc'[t].snapshot)[k] = read_field(k, loc[t].base, cp_base)
          /\ \A k \in SnapshotKeys \ FullTierKeys :
               Val(loc'[t].snapshot)[k] = Val(loc[t].snapshot)[k]]_vars

\* The gear read failed alone: the snapshot has the engine speed and the
\* checkpoint, and no gear.
C14_Witness ==
  /\ pc["Poll"] = "gs_release"
  /\ loc["Poll"].failed = {"gear"}
  /\ loc["Poll"].invoked = FullTierKeys
  /\ Val(loc["Poll"].snapshot)["gear"] = None
  /\ Val(loc["Poll"].snapshot)["engine_rpm"] = Some(RpmValue)
  /\ Val(loc["Poll"].snapshot)["checkpoint"] # None

\* The last call of _inject_pointer_capture has ended, and nothing happened
\* since.
JustInjected == last.op = "_inject_pointer_capture"

\* C15: _inject_pointer_capture fails with an error whenever the target
\* denies the allocation, a memory write (trampoline code, slot zeroing, site
\* patch) or a protection change; it returns a slot address only if none of
\* these calls was denied.
C15_InjectFailsOnDenial ==
  JustInjected => (last.denied # {} => (last.raised # "" /\ last.ret = None))

\* C16: after an injection that returned with no call denied, the trampoline's
\* store writes to the returned slot address, a read of the slot before any
\* hit of the site yields 0, and a read after a hit yields the captured
\* register.
C16_SlotHoldsCapturedRegister ==
  (last.op # "none" /\ last.raised = "" /\ last.denied = {})
  => /\ game_memory.tramp_store = last.ret
     /\ (last.op = "_read_race_data_ptr" /\ last.hit = None)
          => last.read = Some(0)
     /\ (last.op = "_read_race_data_ptr" /\ last.hit # None)
          => last.read = last.hit

WaitingForRace ==
  pc["RaceLoop"] \in {"wait_read_ptr", "wait_read_progress", "wait_sleep"}

\* The race loop is in its recording loop.
Recording ==
  pc["RaceLoop"] \in {"gs_acquire", "gs_base", "gs_always", "gs_full",
                      "gs_release", "gs_return", "detect_race_end",
                      "rec_sleep"}

\* The race loop waits for the game process to attach to.
Idle == pc["RaceLoop"] = "attach"

\* C18: when the game process is lost while the race loop waits for a race
\* start or records, the race loop eventually is back at Idle, waiting for
\* the game process (or has recorded all the snapshots a race is followed
\* for).
C18_ProcessLossLeadsToIdle ==
  (proc = "absent" /\ (WaitingForRace \/ Recording))
    ~> (Idle \/ Len(race_frames) >= MaxRaceFrames)

\* The game shows the race complete: the progress read through the captured
\* base is at 100 %.
RaceOver ==
  /\ _read_race_data_ptr = {RaceDataAddr}
  /\ _read_race_progress(RaceDataAddr) # None
  /\ Val(_read_race_progress(RaceDataAddr)) >= 100

\* C19: a Recording session ends when the race ends: detect_race_end, called
\* when the race is over, hands the accumulated frames to save_race_data and
\* returns True, and the race loop goes back to waiting for the next race
\* start.
C19_RaceEndEndsRecording ==
  [][(/\ pc["RaceLoop"] = "detect_race_end"
      /\ pc'["RaceLoop"] # "detect_race_end"
      /\ RaceOver)
     => (/\ pc'["RaceLoop"] = "is_attached"
         /\ active_ghost' # None
         /\ Val(active_ghost')["race_data"] = race_frames
         /\ files'[Val(last_ghost_path)] # files[Val(last_ghost_path)])]_vars

\* C20: a session interrupted by process loss is never flushed:
\* detect_race_end returns False and saves nothing whenever the base pointer
\* reads 0, and no step of the race loop writes a ghost from frames that
\* hold a snapshot taken while the base was 0 or unreadable.
C20_InterruptedSessionNotFlushed ==
  [][(/\ pc["RaceLoop"] = "detect_race_end"
      /\ pc'["RaceLoop"] # "detect_race_end")
     => /\ _read_race_data_ptr = {0}
             => (pc'["RaceLoop"] = "rec_sleep" /\ UNCHANGED gvars)
        /\ (\E i \in 1..Len(race_frames) : race_frames[i]["timer_value"] = None)
             => UNCHANGED gvars]_vars

\* detect_race_end has returned False on a session whose only snapshot was
\* taken after the game exited: nothing is saved.
C20_Witness ==
  /\ pc["RaceLoop"] = "rec_sleep"
  /\ proc = "absent"
  /\ last_ghost_path # None
  /\ Len(race_frames) = 1
  /\ race_frames[1]["timer_value"] = None
  /\ files[Val(last_ghost_path)] = NoFile
  /\ active_ghost = None

InSnapshot(t) ==
  pc[t] \in {"gs_base", "gs_always", "gs_full", "gs_release"}

\* find_offsets of thread u is executing: the timer signature has been
\* handled and the checkpoint signature is still to be scanned and injected.
InFindOffsets(u) == pc[u] = "find_cp"

\* C22: in every interleaving of the main thread, the race loop and the GUI
\* poll thread no get_snapshot is in progress while find_offsets is
\* executing.
C22_InjectionExcludesSnapshot ==
  \A u \in Threads : \A t \in Snapshooters \ {u} :
    ~(InFindOffsets(u) /\ InSnapshot(t))

\* The signature's site jumps to a trampoline whose code was written.
Injected(h) ==
  /\ h.found
  /\ h.memory.site_jump # None
  /\ h.memory.tramp_store # None

\* C23: a failed scan or failed injection for one signature never raises out
\* of find_offsets and never prevents the scan and injection of the other
\* signature, and find_offsets returns True exactly when every signature
\* was found and injected.
C23_FindOffsetsBestEffort ==
  last.op = "find_offsets"
  => /\ last.raised = ""
     /\ last.cp = hook_signature(last.cp_sig)
     /\ last.timer = hook_signature(last.timer_sig)
     /\ last.ret <=> (Injected(last.timer) /\ Injected(last.cp))

\* Thread t reads a pointer slot in this step: the race-data slot in
\* get_snapshot, wait_for_race_start and detect_race_end.
ReadsRaceDataSlot(t) ==
  /\ pc[t] \in {"wait_read_ptr", "gs_base", "detect_race_end"}
  /\ pc'[t] # pc[t]
  /\ _p_race_data_slot # None
  /\ handle_ok

\* C24: pointer-slot addresses never outlive the process they were created
\* in: no get_snapshot, wait_for_race_start or detect_race_end reads, through
\* the handle of the current process, a slot address obtained from an
\* earlier process, also when the new find_offsets fails to find or inject a
\* signature.
C24_NoSlotFromEarlierProcess ==
  [][\A t \in Threads :
       ReadsRaceDataSlot(t) => Val(_p_race_data_slot) = gen]_vars

\* What region b contributes when the choice is made on the boundary times:
\* the timer of the new run at the end of the region against the timer the
\* stored region ends with.
ChoiceByBoundaryTime(b) ==
  IF TimeAt(last.race_frames, b.end_pct) <= RegionTime(last.old_race_data, b)
  THEN RegionEntries(last.race_frames, b)
  ELSE RegionEntries(last.old_race_data, b)

\* C25: per region _compute_best_splits uses the new run's frames when the
\* new boundary time is less than or equal to the old one (a tie goes to the
\* new run) and keeps the old region's entries when the new boundary time
\* is greater: with best_splits holding the previous run, the saved
\* best_splits is, region by region, the new run's region or the stored one
\* according to that comparison.
C25_RegionChosenByBoundaryTime ==
  BestIsPreviousRun
  => LET bs == boundaries(last.splits)
     IN  SavedBest =
           Concat([i \in 1..Len(bs) |-> ChoiceByBoundaryTime(bs[i])])

\* Every frame has timer and progress, and neither decreases along the run.
NonDecreasingRun(frames) ==
  /\ Len(frames) > 0
  /\ \A i \in 1..Len(frames) : HasTimer(frames[i]) /\ HasPct(frames[i])
  /\ \A i \in 1..(Len(frames) - 1) :
       /\ Pct(frames[i]) <= Pct(frames[i + 1])
       /\ Timer(frames[i]) <= Timer(frames[i + 1])

\* C26: after save_race_data of a run whose timer and progress are both
\* non-decreasing, the timer_value of best_splits is non-decreasing in list
\* order over the whole list, across region boundaries too.
C26_BestSplitsIsOneTimeline ==
  (JustSaved /\ NonDecreasingRun(last.race_frames))
  => \A i \in 1..(Len(SavedBest) - 1) :
       Timer(SavedBest[i]) <= Timer(SavedBest[i + 1])

\* Thread t is at the end of get_snapshot's with block, the lock still held.
AtRelease(t) == pc[t] = "gs_release"

\* C27: a captured base of 0 is never dereferenced: no typed field read is
\* issued with base 0, a get_snapshot that read base 0 ends with every field
\* None and _last_timer_value as it found it, and wait_for_race_start reads
\* progress only with a non-zero base.
C27_BaseZeroNeverDereferenced ==
  /\ \A t \in Threads : 0 \notin loc[t].read_bases
  /\ \A t \in Snapshooters :
       (AtRelease(t) /\ loc[t].base = 0)
       => /\ \A k \in SnapshotKeys : Val(loc[t].snapshot)[k] = None
          /\ _last_timer_value = loc[t].last_before
          /\ loc[t].invoked = {}
  /\ pc["RaceLoop"] = "wait_read_progress" => loc["RaceLoop"].base # 0

\* A get_snapshot read base 0 after an earlier call had seen the timer.
C27_Witness ==
  \E t \in Snapshooters :
    /\ AtRelease(t)
    /\ loc[t].base = 0
    /\ _last_timer_value # -1
    /\ _p_race_data_slot # None

\* Thread t runs the tick test of its get_snapshot in this step.
TestsTick(t) == pc[t] = "gs_always" /\ pc'[t] # pc[t]

\* C28: the tick detector reports a tick exactly when the timer read is not
\* None and differs from last_timer_value; the call leaves in
\* last_timer_value the timer it read, or what it found when the read was
\* None; and nothing else assigns last_timer_value, which starts at -1.
C28_TickDetector ==
  [][/\ \A t \in Snapshooters :
          TestsTick(t)
          => LET timer == loc'[t].timer_value
             IN  /\ loc'[t].tick <=>
                      (timer # None /\ Val(timer) # _last_timer_value)
                 /\ timer # None => _last_timer_value' = Val(timer)
                 /\ timer = None => _last_timer_value' = _last_timer_value
                 /\ pc'[t] = IF loc'[t].tick THEN "gs_full" ELSE "gs_release"
     /\ _last_timer_value' # _last_timer_value
          => \E t \in Snapshooters : TestsTick(t)]_vars

\* A call found the timer of an earlier call and read a later one: a tick,
\* and last_timer_value follows.
C28_Witness ==
  \E t \in Snapshooters :
    /\ pc[t] = "gs_full"
    /\ loc[t].tick
    /\ loc[t].last_before # -1
    /\ _last_timer_value = Val(loc[t].timer_value)
    /\ _last_timer_value # loc[t].last_before

\* C29: when the GUI poll thread and the race loop both call get_snapshot,
\* the tick test runs only while its thread holds the extractor lock and no
\* other call is inside get_snapshot, and a timer value that was reported as
\* a tick is recorded with the report, so that the same value is no tick for
\* the next call of any thread.
C29_TickReportedOnceUnderLock ==
  /\ [](\A t \in Snapshooters : InSnapshot(t) => _lock = Some(t))
  /\ [][\A t \in Snapshooters :
          TestsTick(t)
          => /\ _lock = Some(t) /\ _lock' = Some(t)
             /\ \A u \in Snapshooters \ {t} : ~InSnapshot(u)
             /\ loc'[t].tick
                  => ~_has_physics_update(loc'[t].timer_value,
                                          _last_timer_value').changed]_vars

\* The poll thread was given the tick of a timer value, and the race loop,
\* reading the same value afterwards, was not.
C29_Witness ==
  /\ Returned("Poll")
  /\ loc["Poll"].tick
  /\ pc["RaceLoop"] = "gs_release"
  /\ ~loc["RaceLoop"].tick
  /\ loc["RaceLoop"].timer_value # None
  /\ loc["RaceLoop"].timer_value = loc["Poll"].timer_value

\* This step is a load_ghost that raised.
LoadGhostFails == last'.op = "load_ghost" /\ last'.raised # ""

\* C30: a failed load_ghost (file missing or a required key missing) leaves
\* the active ghost and the active path as they were, so that
\* interpolate_ghost_timer and get_splits answer as before the call; and in
\* every reachable state the active ghost is None exactly when the active
\* path is None.
C30_FailedLoadKeepsActiveGhost ==
  /\ []((active_ghost = None) <=> (active_path = None))
  /\ [][LoadGhostFails
        => /\ active_ghost' = active_ghost
           /\ active_path' = active_path
           /\ get_splits(active_ghost') = get_splits(active_ghost)
           /\ \A pct \in QueryPcts :
                interpolate_ghost_timer(active_ghost', pct)
                  = interpolate_ghost_timer(active_ghost, pct)]_vars

\* With a saved ghost active, load_ghost of another file that parses and
\* lacks a required key has raised.
C30_Witness ==
  /\ last.op = "load_ghost"
  /\ last.raised = "ValueError"
  /\ parses(last.file)
  /\ active_path # None
  /\ active_path # Some(last.path)
  /\ SavedBest # <<>>

====
